---- MODULE Spec2Model ----
(***************************************************************************)
(* Document retrieval core of the BI backend:                              *)
(*   app/services/document_service.py  (DocumentService)                   *)
(*   app/api/routes/documents.py       (upload / delete / search routes)   *)
(* The persisted state is the FAISS index file, the pickled metadata list  *)
(* and the document_metadata table.  Every request is served by a worker   *)
(* that reloads both files; workers share nothing but the files and the    *)
(* table, so their file and table accesses interleave.                     *)
(***************************************************************************)
EXTENDS Integers, Sequences, FiniteSets, TLC

\* ---------------------------------------------------------------- bounds
NProcs == 2          \* concurrent request workers
MaxDocs == 2         \* uploads that reach uuid generation
MaxTokens == 4       \* token count of an uploaded text
ChunkSize == 3       \* self.chunk_size, scaled down from 1000
ChunkOverlap == 1    \* self.chunk_overlap, scaled down from 200
BatchSize == 1       \* batch_size of _generate_embeddings, scaled down from 20
MaxTopK == 2         \* largest top_k a search is called with
MaxStoredDocs == 3   \* documents in a store that searches start from
MaxRetries == 3      \* largest max_retries a caller passes to call_with_retry
MaxDelay == 2        \* largest delay a caller passes, in seconds
MaxStamp == 2        \* distinct values datetime.utcnow() returns
MaxChunkSize == 10   \* largest chunk_size _chunk_text is applied with
MaxTextTokens == 17  \* longest token sequence _chunk_text is applied to

Procs == 1..NProcs
\* the company-number and user-id headers of the clients
Clients == {[company |-> "A", user |-> "u1"], [company |-> "B", user |-> "u2"]}
Tenants == {c.company : c \in Clients}
Users == {c.user : c \in Clients}
None == "None"
DocTypes == {"company_specific", "general"}
Extensions == {"pdf", "txt", "md", "exe"}
Contents == {"text", "blank", "badpdf", "special"}

\* Embeddings are integer vectors with an integer norm; a normalised vector
\* is kept scaled by 5, so an inner product of two of them is 25 * cosine.
RawEmbeddings == {<<10, 0>>, <<3, 4>>}
QueryEmbeddings == {<<8, 6>>}
Thresholds == {15, 21}        \* 0.6 and 0.84 in units of 1/25
\* values of datetime.utcnow(); the wall clock can return a value twice
Timestamps == 1..MaxStamp

VARIABLES
  indexExists,   \* os.path.exists(faiss.index)
  indexVecs,     \* vectors of the persisted index, position = vector id
  metaExists,    \* os.path.exists(metadata.pkl)
  metaList,      \* the persisted metadata list
  catalog,       \* rows of table document_metadata
  nextDoc,       \* supply of fresh uuid4 values
  pc,            \* position of each worker
  loc,           \* locals of the request a worker is serving
  resp,          \* the response returned by the last step, NoResp if none
  assigned,      \* history: [doc_id, vector_ids] returned by _store_in_vector_db
  deleted,       \* history: doc_ids whose delete reported success
  orphaned,      \* history: doc_ids appended whose catalog insert failed
  prev           \* history: files and table as they were before the last step

vars == <<indexExists, indexVecs, metaExists, metaList, catalog, nextDoc,
          pc, loc, resp, assigned, deleted, orphaned, prev>>

stored == <<indexExists, indexVecs, metaExists, metaList, catalog>>
files == <<indexExists, indexVecs, metaExists, metaList>>
history == <<assigned, deleted, orphaned>>

\* ------------------------------------------------------- pure functions
Min(a, b) == IF a < b THEN a ELSE b

\* range(start, stop, step) of Python, for step > 0
RECURSIVE PyRange(_, _, _)
PyRange(start, stop, step) ==
  IF start >= stop THEN <<>>
  ELSE <<start>> \o PyRange(start + step, stop, step)

\* a loop that stops at the last full window: range(0, len - size + 1, step)
ChunkRanges_NoTail(ntok, size, overlap) ==
  LET starts == PyRange(0, ntok - size + 1, size - overlap)
  IN  [k \in 1..Len(starts) |->
         [lo |-> starts[k], hi |-> Min(starts[k] + size, ntok)]]

\* a loop that steps by the whole window: range(0, len, size)
ChunkRanges_NoOverlap(ntok, size, overlap) ==
  LET starts == PyRange(0, ntok, size)
  IN  [k \in 1..Len(starts) |->
         [lo |-> starts[k], hi |-> Min(starts[k] + size, ntok)]]

\* token ranges [lo, hi) of the chunks of a text of ntok tokens
ChunkRanges(ntok, size, overlap) ==
  LET starts == PyRange(0, ntok, size - overlap)
  IN  [k \in 1..Len(starts) |->
         [lo |-> starts[k], hi |-> Min(starts[k] + size, ntok)]]

\* metadata of the chunks _chunk_text emits
ChunkText(ntok, doc_id, company_number, document_type) ==
  LET rs == ChunkRanges(ntok, ChunkSize, ChunkOverlap)
  IN  [k \in 1..Len(rs) |->
         [doc_id |-> doc_id, chunk_index |-> k - 1,
          company_number |-> company_number,
          document_type |-> document_type]]

\* faiss.normalize_L2, on integer vectors whose norm is an integer
Norm(v) == CHOOSE n \in 0..20 : n * n = v[1] * v[1] + v[2] * v[2]
NormalizeL2(v) ==
  <<(5 * v[1]) \div Norm(v), (5 * v[2]) \div Norm(v)>>

InnerProduct(a, b) == a[1] * b[1] + a[2] * b[2]

\* number of provider batches for n texts
BatchCount(n) == (n + BatchSize - 1) \div BatchSize

Idle == [op |-> "idle"]
NoResp == [op |-> "none", status |-> 0]

Init ==
  /\ indexExists = FALSE
  /\ indexVecs = <<>>
  /\ metaExists = FALSE
  /\ metaList = <<>>
  /\ catalog = {}
  /\ nextDoc = 1
  /\ pc = [p \in Procs |-> "idle"]
  /\ loc = [p \in Procs |-> Idle]
  /\ resp = NoResp
  /\ assigned = {}
  /\ deleted = {}
  /\ orphaned = {}
  /\ prev = stored

\* set the locals / position / response of worker p
Goto(p, label, l) ==
  /\ pc' = [pc EXCEPT ![p] = label]
  /\ loc' = [loc EXCEPT ![p] = l]
  /\ resp' = NoResp
  /\ prev' = stored

Respond(p, r) ==
  /\ pc' = [pc EXCEPT ![p] = "idle"]
  /\ loc' = [loc EXCEPT ![p] = Idle]
  /\ resp' = r
  /\ prev' = stored

\* ------------------------------------------------------------ upload
\* except Exception in DocumentService.upload_document: every exception,
\* an HTTPException raised inside the try included, is re-raised as 500
UploadServiceCatch(status) == 500

\* a route that catches Exception first, as upload_document does
RouteCatch_Wrap(status) == 500

\* except HTTPException in the routes: re-raised as it is
RouteCatch(status) == status

\* the checks of the route and of upload_document up to _chunk_text, where
\* tokenizer.encode raises on a text that holds a special token:
\* <<status seen by the caller, detail>>, status 0 when all pass
UploadValidate(dtype, company, ext, oversize, content) ==
  IF dtype \notin DocTypes
    THEN <<RouteCatch(400), "bad_document_type">>
  ELSE IF dtype = "company_specific" /\ company = None
    THEN <<RouteCatch(400), "company_required">>
  ELSE IF oversize
    THEN <<RouteCatch(UploadServiceCatch(400)), "too_large">>
  ELSE IF ext = "pdf" /\ content = "badpdf"
    THEN <<RouteCatch(UploadServiceCatch(400)), "bad_pdf">>
  ELSE IF ext \notin {"pdf", "txt", "md"}
    THEN <<RouteCatch(UploadServiceCatch(400)), "unsupported">>
  ELSE IF content = "blank"
    THEN <<RouteCatch(UploadServiceCatch(400)), "no_text">>
  ELSE IF content = "special"
    THEN <<RouteCatch(UploadServiceCatch(500)), "chunking">>
  ELSE <<0, "ok">>

UploadFailed(doc_id, status, detail) ==
  [op |-> "upload", status |-> status, detail |-> detail, doc_id |-> doc_id]

\* the outcomes of the checks over the requests a client can send
UploadOutcomes ==
  {UploadValidate(dtype, company, ext, oversize, content) :
     dtype \in DocTypes \cup {"other"}, company \in Tenants,
     ext \in Extensions, oversize \in BOOLEAN, content \in Contents}

\* route upload_document + upload_document up to the raise
UploadRejected(p) ==
  /\ pc[p] = "idle"
  /\ \E v \in UploadOutcomes :
       /\ v[1] # 0
       /\ Respond(p, UploadFailed(0, v[1], v[2]))
  /\ UNCHANGED <<stored, nextDoc, history>>

\* the requests that pass the checks: document type, headers of the
\* client, token count of the text, embedding of its chunks
UploadArgs ==
  {a \in [document_type : DocTypes, client : Clients,
          ntok : 1..MaxTokens, embedding : RawEmbeddings] :
     \E ext \in Extensions :
       UploadValidate(a.document_type, a.client.company, ext, FALSE, "text")[1] = 0}

\* a route that passes the company header on for a general document too
UploadCall_KeepCompany(a, doc_id) ==
  [op |-> "upload", doc_id |-> doc_id, user_id |-> a.client.user,
   company_number |-> a.client.company,
   document_type |-> a.document_type,
   chunks |-> ChunkText(a.ntok, doc_id, a.client.company, a.document_type),
   embedding |-> a.embedding]

\* the locals of upload_document after _chunk_text
UploadCall(a, doc_id) ==
  LET doc_company_number ==
        IF a.document_type = "company_specific" THEN a.client.company ELSE None
  IN  [op |-> "upload", doc_id |-> doc_id, user_id |-> a.client.user,
       company_number |-> doc_company_number,
       document_type |-> a.document_type,
       chunks |-> ChunkText(a.ntok, doc_id, doc_company_number, a.document_type),
       embedding |-> a.embedding]

\* the distinct locals over the requests that pass the checks
UploadCalls == [d \in 1..MaxDocs |-> {UploadCall(a, d) : a \in UploadArgs}]

\* route upload_document + upload_document up to and including
\* _generate_embeddings, every batch answered
UploadAccepted(p) ==
  /\ pc[p] = "idle"
  /\ nextDoc <= MaxDocs
  /\ \E l \in UploadCalls[nextDoc] : Goto(p, "u_ldidx", l)
  /\ nextDoc' = nextDoc + 1
  /\ UNCHANGED <<stored, history>>

\* the batches _generate_embeddings can get to over those requests
BatchNumbers == UNION {1..BatchCount(Len(l.chunks)) : l \in UploadCalls[1]}

\* an upload that stores each batch as it is answered
UploadEmbedFail_Partial(p) ==
  /\ pc[p] = "idle"
  /\ \E b \in BatchNumbers :
       /\ Respond(p, [op |-> "upload", status |-> 500, detail |-> "embedding",
                      doc_id |-> 0, batches_ok |-> b - 1, calls_failed |-> 1])
       /\ indexVecs' = indexVecs \o [k \in 1..(b - 1) |-> <<5, 0>>]
  /\ UNCHANGED <<indexExists, metaExists, metaList, catalog, nextDoc, history>>

\* the same, but batch b of _generate_embeddings raises after b-1 batches
\* were answered: the first provider call that raises ends the loop, so one
\* call has failed when the upload fails
UploadEmbedFail(p) ==
  /\ pc[p] = "idle"
  /\ \E b \in BatchNumbers :
       Respond(p, [op |-> "upload",
                   status |-> RouteCatch(UploadServiceCatch(500)),
                   detail |-> "embedding", doc_id |-> 0,
                   batches_ok |-> b - 1, calls_failed |-> 1])
  /\ UNCHANGED <<stored, nextDoc, history>>

\* _store_in_vector_db: os.path.exists(index_path), faiss.read_index
StoreLoadIndex(p) ==
  /\ pc[p] = "u_ldidx"
  /\ IF indexExists
       THEN Goto(p, "u_ldmeta", loc[p] @@ [index |-> indexVecs])
       ELSE Goto(p, "u_wridx",
                 loc[p] @@ [index |-> <<>>, metas |-> <<>>])
  /\ UNCHANGED <<stored, nextDoc, history>>

\* _store_in_vector_db: pickle.load of the metadata file
StoreLoadMeta(p) ==
  /\ pc[p] = "u_ldmeta"
  /\ IF metaExists
       THEN Goto(p, "u_wridx", loc[p] @@ [metas |-> metaList])
       ELSE Respond(p, UploadFailed(loc[p].doc_id,
                         RouteCatch(UploadServiceCatch(500)), "vector_db"))
  /\ UNCHANGED <<stored, nextDoc, history>>

\* the index after index.add(embeddings)
IndexAdd(index, n, emb) == index \o [k \in 1..n |-> NormalizeL2(emb)]

\* an append loop that counts the vector ids from start_id + 1
MetaAppend_OffByOne(metas, start_id, chunks) ==
  metas \o [k \in 1..Len(chunks) |->
              [vector_id |-> start_id + k] @@ chunks[k]]

\* the metadata list after the append loop
MetaAppend(metas, start_id, chunks) ==
  metas \o [k \in 1..Len(chunks) |->
              [vector_id |-> start_id + (k - 1)] @@ chunks[k]]

\* _store_in_vector_db: start_id, index.add, faiss.write_index
StoreWriteIndex(p) ==
  /\ pc[p] = "u_wridx"
  /\ indexExists' = TRUE
  /\ indexVecs' = IndexAdd(loc[p].index, Len(loc[p].chunks), loc[p].embedding)
  /\ Goto(p, "u_wrmeta", loc[p] @@ [start_id |-> Len(loc[p].index)])
  /\ UNCHANGED <<metaExists, metaList, catalog, nextDoc, history>>

\* _store_in_vector_db: faiss.write_index raises
StoreWriteIndexFail(p) ==
  /\ pc[p] = "u_wridx"
  /\ Respond(p, UploadFailed(loc[p].doc_id,
                  RouteCatch(UploadServiceCatch(500)), "vector_db"))
  /\ UNCHANGED <<stored, nextDoc, history>>

VectorIds(start_id, n) == [k \in 1..n |-> start_id + (k - 1)]

\* _store_in_vector_db: pickle.dump of the metadata list, return vector_ids
StoreWriteMeta(p) ==
  /\ pc[p] = "u_wrmeta"
  /\ metaExists' = TRUE
  /\ metaList' = MetaAppend(loc[p].metas, loc[p].start_id, loc[p].chunks)
  /\ LET ids == VectorIds(loc[p].start_id, Len(loc[p].chunks))
     IN  /\ assigned' = assigned \cup
                          {[doc_id |-> loc[p].doc_id, vector_ids |-> ids]}
         /\ Goto(p, "u_insert", loc[p] @@ [vector_ids |-> ids])
  /\ UNCHANGED <<indexExists, indexVecs, catalog, nextDoc, deleted, orphaned>>

\* _store_in_vector_db: opening or writing the metadata file raises after
\* the index file was written
StoreWriteMetaFail(p) ==
  /\ pc[p] = "u_wrmeta"
  /\ Respond(p, UploadFailed(loc[p].doc_id,
                  RouteCatch(UploadServiceCatch(500)), "vector_db"))
  /\ UNCHANGED <<stored, nextDoc, history>>

\* datetime.utcnow(), _save_document_metadata: INSERT and commit, then the
\* success response
CatalogInsert(p) ==
  /\ pc[p] = "u_insert"
  /\ \E now \in Timestamps :
       catalog' = catalog \cup
         {[doc_id |-> loc[p].doc_id, company_number |-> loc[p].company_number,
           document_type |-> loc[p].document_type, user_id |-> loc[p].user_id,
           chunk_count |-> Len(loc[p].chunks), vector_ids |-> loc[p].vector_ids,
           upload_timestamp |-> now]}
  /\ Respond(p, [op |-> "upload", status |-> 200, detail |-> "success",
                 doc_id |-> loc[p].doc_id])
  /\ UNCHANGED <<files, nextDoc, history>>

\* _save_document_metadata: the INSERT raises
CatalogInsertFail(p) ==
  /\ pc[p] = "u_insert"
  /\ orphaned' = orphaned \cup {loc[p].doc_id}
  /\ Respond(p, UploadFailed(loc[p].doc_id,
                  RouteCatch(UploadServiceCatch(500)), "catalog"))
  /\ UNCHANGED <<stored, nextDoc, assigned, deleted>>


\* ------------------------------------------------------------ delete
DocIds == 0..MaxDocs      \* 0 is a doc_id no upload ever generated

Rows(doc_id) == {r \in catalog : r.doc_id = doc_id}

\* the answer to a delete; at = the statement that decided it
DeleteResp(doc_id, user, status, at) ==
  [op |-> "delete", status |-> status, doc_id |-> doc_id, user_id |-> user,
   at |-> at]

\* route delete_document: SELECT user_id finds no row
DeleteNotFound(p) ==
  /\ pc[p] = "idle"
  /\ \E d \in DocIds, user \in Users :
       /\ Rows(d) = {}
       /\ Respond(p, DeleteResp(d, user, RouteCatch(404), "check"))
  /\ UNCHANGED <<stored, nextDoc, history>>

\* route delete_document: the row belongs to another user
DeleteForbidden(p) ==
  /\ pc[p] = "idle"
  /\ \E d \in DocIds, user \in Users :
       /\ \E r \in Rows(d) : r.user_id # user
       /\ Respond(p, DeleteResp(d, user, RouteCatch(403), "check"))
  /\ UNCHANGED <<stored, nextDoc, history>>

\* a route that does not compare the row's user_id with the caller's
DeleteOwnerChecked_Any(p) ==
  /\ pc[p] = "idle"
  /\ \E d \in DocIds, user \in Users :
       /\ Rows(d) # {}
       /\ Goto(p, "d_select", [op |-> "delete", doc_id |-> d, user_id |-> user])
  /\ UNCHANGED <<stored, nextDoc, history>>

\* route delete_document: the caller owns the row, the service is called
DeleteOwnerChecked(p) ==
  /\ pc[p] = "idle"
  /\ \E d \in DocIds, user \in Users :
       /\ \E r \in Rows(d) : r.user_id = user
       /\ Goto(p, "d_select", [op |-> "delete", doc_id |-> d, user_id |-> user])
  /\ UNCHANGED <<stored, nextDoc, history>>

\* DocumentService.delete_document: SELECT vector_ids
DeleteSelect(p) ==
  /\ pc[p] = "d_select"
  /\ IF Rows(loc[p].doc_id) = {}
       THEN Respond(p, DeleteResp(loc[p].doc_id, loc[p].user_id,
                                  RouteCatch(404), "select"))
       ELSE Goto(p, "d_exec", loc[p])
  /\ UNCHANGED <<stored, nextDoc, history>>

\* the table after DELETE FROM document_metadata WHERE doc_id = :doc_id
CatalogDelete(rows, doc_id) == {r \in rows : r.doc_id # doc_id}

\* DocumentService.delete_document: DELETE, commit, return True
DeleteExec(p) ==
  /\ pc[p] = "d_exec"
  /\ catalog' = CatalogDelete(catalog, loc[p].doc_id)
  /\ deleted' = deleted \cup {loc[p].doc_id}
  /\ Respond(p, DeleteResp(loc[p].doc_id, loc[p].user_id, 200, "delete"))
  /\ UNCHANGED <<files, nextDoc, assigned, orphaned>>

\* -------------------------------------------------------------- list
\* the columns list_documents selects
ListRow(r) ==
  [doc_id |-> r.doc_id, company_number |-> r.company_number,
   document_type |-> r.document_type, user_id |-> r.user_id,
   chunk_count |-> r.chunk_count, upload_timestamp |-> r.upload_timestamp]

\* the WHERE clause of list_documents; user_id = None when show_all
ListWhere(rows, company_number, user_id) ==
  {r \in rows :
     /\ company_number # None =>
          (r.company_number = company_number \/ r.document_type = "general")
     /\ user_id # None => r.user_id = user_id}

\* ORDER BY upload_timestamp DESC: the orders a database may return the
\* rows in; the order among rows of equal timestamp is not determined
OrderByTimestampDesc(rows) ==
  {docs \in [1..Cardinality(rows) -> rows] :
     /\ \A i, j \in 1..Cardinality(rows) : i # j => docs[i] # docs[j]
     /\ \A i, j \in 1..Cardinality(rows) :
          i < j => docs[i].upload_timestamp >= docs[j].upload_timestamp}

\* the response to a list; last = what the list answered by the step before,
\* when that was a list with the same filters
ListResp(company_number, user_id, raised, documents) ==
  [op |-> "list", status |-> 200, raised |-> raised,
   company_number |-> company_number, user_id |-> user_id,
   documents |-> documents,
   last |-> IF /\ resp.op = "list" /\ ~ resp.raised
               /\ resp.company_number = company_number
               /\ resp.user_id = user_id
              THEN [seen |-> TRUE, documents |-> resp.documents]
              ELSE [seen |-> FALSE, documents |-> <<>>]]

\* route list_documents + DocumentService.list_documents
ListDocuments(p) ==
  /\ pc[p] = "idle"
  /\ \E c \in Clients, show_all \in BOOLEAN :
       LET filter_user_id == IF show_all THEN None ELSE c.user
           rows == {ListRow(r) : r \in ListWhere(catalog, c.company, filter_user_id)}
       IN  \E docs \in OrderByTimestampDesc(rows) :
             Respond(p, ListResp(c.company, filter_user_id, FALSE, docs))
  /\ UNCHANGED <<stored, nextDoc, history>>

\* DocumentService.list_documents: db.execute raises, the except returns []
ListDocumentsFail(p) ==
  /\ pc[p] = "idle"
  /\ \E c \in Clients, show_all \in BOOLEAN :
       Respond(p, ListResp(c.company, IF show_all THEN None ELSE c.user,
                           TRUE, <<>>))
  /\ UNCHANGED <<stored, nextDoc, history>>

\* ------------------------------------------------------------ search
\* index.search(query, k): the k best positions by inner product, best
\* first, as <<position, score>> records
RECURSIVE TopCandidates(_, _, _, _)
TopCandidates(index, q, k, taken) ==
  LET rest == (1..Len(index)) \ taken
      sc(i) == InnerProduct(q, index[i])
  IN  IF k = 0 \/ rest = {} THEN <<>>
      ELSE LET best == CHOOSE i \in rest :
                         \A j \in rest : sc(i) > sc(j) \/ (sc(i) = sc(j) /\ i <= j)
           IN  <<[idx |-> best - 1, score |-> sc(best)]>>
                 \o TopCandidates(index, q, k - 1, taken \cup {best})

\* an index that answers with its first k positions, in position order
IndexSearch_Unsorted(index, q, k) ==
  [i \in 1..Min(k, Len(index)) |->
     [idx |-> i - 1, score |-> InnerProduct(NormalizeL2(q), index[i])]]

IndexSearch(index, q, k) == TopCandidates(index, NormalizeL2(q), k, {})

\* a filter that compares the company with == where the code has !=
CompanyFiltered_Eq(metadata, company_number) ==
  /\ company_number # None
  /\ metadata.company_number = company_number
  /\ metadata.document_type # "general"

\* the company filter of search_documents: TRUE when the entry is skipped
CompanyFiltered(metadata, company_number) ==
  /\ company_number # None
  /\ metadata.company_number # company_number
  /\ metadata.document_type # "general"

\* a filter loop without the score test
RECURSIVE FilterResults_NoThreshold(_, _, _, _, _, _)
FilterResults_NoThreshold(cands, metas, company_number, top_k, threshold, results) ==
  IF cands = <<>> THEN [ok |-> TRUE, results |-> results]
  ELSE LET c == Head(cands) IN
    IF c.idx + 1 > Len(metas)
      THEN [ok |-> FALSE, results |-> <<>>]
    ELSE IF CompanyFiltered(metas[c.idx + 1], company_number)
      THEN FilterResults_NoThreshold(Tail(cands), metas, company_number, top_k,
                                     threshold, results)
    ELSE LET r == Append(results, [score |-> c.score, metadata |-> metas[c.idx + 1]])
         IN  IF Len(r) >= top_k THEN [ok |-> TRUE, results |-> r]
             ELSE FilterResults_NoThreshold(Tail(cands), metas, company_number,
                                            top_k, threshold, r)

\* the filter loop of search_documents over the candidates;
\* ok = FALSE when metadata_list[idx] raises IndexError
RECURSIVE FilterResults(_, _, _, _, _, _)
FilterResults(cands, metas, company_number, top_k, threshold, results) ==
  IF cands = <<>> THEN [ok |-> TRUE, results |-> results]
  ELSE LET c == Head(cands) IN
    IF c.score < threshold
      THEN FilterResults(Tail(cands), metas, company_number, top_k, threshold, results)
    ELSE IF c.idx + 1 > Len(metas)
      THEN [ok |-> FALSE, results |-> <<>>]
    ELSE IF CompanyFiltered(metas[c.idx + 1], company_number)
      THEN FilterResults(Tail(cands), metas, company_number, top_k, threshold, results)
    ELSE LET r == Append(results, [score |-> c.score, metadata |-> metas[c.idx + 1]])
         IN  IF Len(r) >= top_k THEN [ok |-> TRUE, results |-> r]
             ELSE FilterResults(Tail(cands), metas, company_number, top_k, threshold, r)

\* the arguments a search is called with
SearchArgs ==
  [company_number : Tenants \cup {None}, top_k : 1..MaxTopK,
   threshold : Thresholds, query : QueryEmbeddings]

\* the arguments of a search that returned before reading them
Unread == [company_number |-> "unread", top_k |-> 0, threshold |-> 0,
           query |-> <<>>]

\* what search_documents returned; raised = an exception was swallowed;
\* index, metas = the index and the metadata list the call had loaded
SearchResp(l, args, metas, raised, results) ==
  [op |-> "search", status |-> 200, raised |-> raised, results |-> results,
   args |-> args, index |-> l.index, metas |-> metas,
   gone |-> l.gone, orph |-> l.orph]

\* a search that lets the failure of the provider out
SearchEmbedFail_Raise(p) ==
  /\ pc[p] = "idle"
  /\ Respond(p, [SearchResp([index |-> <<>>, gone |-> deleted, orph |-> orphaned],
                            Unread, <<>>, TRUE, <<>>) EXCEPT !.status = 500])
  /\ UNCHANGED <<stored, nextDoc, history>>

\* search_documents: _generate_embeddings raises, the except returns []
SearchEmbedFail(p) ==
  /\ pc[p] = "idle"
  /\ Respond(p, SearchResp([index |-> <<>>, gone |-> deleted, orph |-> orphaned],
                           Unread, <<>>, TRUE, <<>>))
  /\ UNCHANGED <<stored, nextDoc, history>>

\* a search that reads the index file without testing that it exists and
\* lets the error out
SearchLoadIndex_NoExists(p) ==
  /\ pc[p] = "idle"
  /\ LET l == [op |-> "search", gone |-> deleted, orph |-> orphaned]
     IN  IF indexExists
           THEN Goto(p, "s_ldmeta", l @@ [index |-> indexVecs])
           ELSE Respond(p, [SearchResp(l @@ [index |-> <<>>], Unread, <<>>,
                                       TRUE, <<>>) EXCEPT !.status = 500])
  /\ UNCHANGED <<stored, nextDoc, history>>

\* search_documents: the query embedding, os.path.exists(index_path),
\* faiss.read_index
SearchLoadIndex(p) ==
  /\ pc[p] = "idle"
  /\ LET l == [op |-> "search", gone |-> deleted, orph |-> orphaned]
     IN  IF indexExists
           THEN Goto(p, "s_ldmeta", l @@ [index |-> indexVecs])
           ELSE Respond(p, SearchResp(l @@ [index |-> <<>>], Unread, <<>>,
                                      FALSE, <<>>))
  /\ UNCHANGED <<stored, nextDoc, history>>

\* search_documents: pickle.load of the metadata file, index.search, the
\* filter loop and the return; any exception returns [].  The arguments of
\* the call are drawn here, where the code first reads them.
SearchLoadMeta(p) ==
  /\ pc[p] = "s_ldmeta"
  /\ IF metaExists
       THEN \E a \in SearchArgs :
              LET cands == IndexSearch(loc[p].index, a.query,
                                       Min(a.top_k * 3, Len(loc[p].index)))
                  out == FilterResults(cands, metaList, a.company_number,
                                       a.top_k, a.threshold, <<>>)
              IN  Respond(p, SearchResp(loc[p], a, metaList, ~ out.ok, out.results))
       ELSE Respond(p, SearchResp(loc[p], Unread, <<>>, TRUE, <<>>))
  /\ UNCHANGED <<stored, nextDoc, history>>

\* ------------------------------------------------- a store to search in
\* index, metadata list, table rows and returned ids after the uploads of
\* calls have run one after the other, each to its success response
RECURSIVE StoreAfter(_)
StoreAfter(calls) ==
  IF calls = <<>>
    THEN [index |-> <<>>, metas |-> <<>>, rows |-> {}, assigned |-> {}]
    ELSE LET st == StoreAfter(SubSeq(calls, 1, Len(calls) - 1))
             l == calls[Len(calls)]
             start_id == Len(st.index)
             ids == VectorIds(start_id, Len(l.chunks))
         IN  [index |-> IndexAdd(st.index, Len(l.chunks), l.embedding),
              metas |-> MetaAppend(st.metas, start_id, l.chunks),
              rows |-> st.rows \cup
                {[doc_id |-> l.doc_id, company_number |-> l.company_number,
                  document_type |-> l.document_type, user_id |-> l.user_id,
                  chunk_count |-> Len(l.chunks), vector_ids |-> ids,
                  upload_timestamp |-> (l.doc_id % MaxStamp) + 1]},
              assigned |-> st.assigned \cup
                {[doc_id |-> l.doc_id, vector_ids |-> ids]}]

\* all workers idle over the store that up to MaxStoredDocs uploads left
InitFilter ==
  \E n \in 0..MaxStoredDocs : \E args \in [1..n -> UploadArgs] :
    \E st \in {StoreAfter([d \in 1..n |-> UploadCall(args[d], d)])} :
        /\ indexExists = (n > 0)
        /\ indexVecs = st.index
        /\ metaExists = (n > 0)
        /\ metaList = st.metas
        /\ catalog = st.rows
        /\ nextDoc = n + 1
        /\ pc = [p \in Procs |-> "idle"]
        /\ loc = [p \in Procs |-> Idle]
        /\ resp = NoResp
        /\ assigned = st.assigned
        /\ deleted = {}
        /\ orphaned = {}
        /\ prev = <<n > 0, st.index, n > 0, st.metas, st.rows>>

\* ---------------------------------------------------------- _chunk_text
\* token count of the text, chunk_size and chunk_overlap of the service
ChunkInputs ==
  {i \in [ntok : 0..MaxTextTokens, size : 1..MaxChunkSize,
          overlap : 0..(MaxChunkSize - 1)] : i.overlap < i.size}

\* a text of 120 tokens chunked with chunk_size 50 and chunk_overlap 10
ChunkScenario == [ntok |-> 120, size |-> 50, overlap |-> 10]

\* a worker about to call _chunk_text on an input, the store empty
InitChunk ==
  /\ indexExists = FALSE
  /\ indexVecs = <<>>
  /\ metaExists = FALSE
  /\ metaList = <<>>
  /\ catalog = {}
  /\ nextDoc = 1
  /\ pc = [p \in Procs |-> IF p = 1 THEN "chunk" ELSE "idle"]
  /\ \E i \in ChunkInputs \cup {ChunkScenario} :
       loc = [p \in Procs |-> IF p = 1 THEN [op |-> "chunk"] @@ i ELSE Idle]
  /\ resp = NoResp
  /\ assigned = {}
  /\ deleted = {}
  /\ orphaned = {}
  /\ prev = stored

\* _chunk_text: the token ranges of the chunks it returns
ChunkTextCall(p) ==
  /\ pc[p] = "chunk"
  /\ Respond(p, [op |-> "chunk", status |-> 0, ntok |-> loc[p].ntok,
                 size |-> loc[p].size, overlap |-> loc[p].overlap,
                 ranges |-> ChunkRanges(loc[p].ntok, loc[p].size, loc[p].overlap)])
  /\ UNCHANGED <<stored, nextDoc, history>>

\* ------------------------------------------------------ call_with_retry
OpenaiMaxRetries == 3     \* settings.openai_max_retries
OpenaiRetryDelay == 1     \* settings.openai_retry_delay, in seconds

\* an optional integer argument: not given (None) or given with a value
Optional(max) ==
  {[given |-> FALSE, value |-> 0]} \cup
  {[given |-> TRUE, value |-> v] : v \in 0..max}

\* Python's  x or default : the default replaces None and 0 alike
PyOr(x, default) == IF ~ x.given \/ x.value = 0 THEN default ELSE x.value

RECURSIVE Pow2(_)
Pow2(n) == IF n = 0 THEN 1 ELSE 2 * Pow2(n - 1)

\* a worker about to enter call_with_retry with its arguments, the store
\* empty
InitRetry ==
  /\ indexExists = FALSE
  /\ indexVecs = <<>>
  /\ metaExists = FALSE
  /\ metaList = <<>>
  /\ catalog = {}
  /\ nextDoc = 1
  /\ pc = [p \in Procs |-> IF p = 1 THEN "r_enter" ELSE "idle"]
  /\ \E m \in Optional(MaxRetries), d \in Optional(MaxDelay) :
       loc = [p \in Procs |->
                IF p = 1 THEN [op |-> "retry", arg_max_retries |-> m,
                               arg_delay |-> d]
                ELSE Idle]
  /\ resp = NoResp
  /\ assigned = {}
  /\ deleted = {}
  /\ orphaned = {}
  /\ prev = stored

\* what call_with_retry did: provider calls made, calls that raised, the
\* sleeps in order, 200 for a returned answer and 502 for the raise
RetryResp(l, status, calls, failed) ==
  [op |-> "retry", status |-> status, calls |-> calls, failed |-> failed,
   slept |-> l.slept, arg_max_retries |-> l.arg_max_retries,
   arg_delay |-> l.arg_delay]

\* call_with_retry: the two  or  defaults and the entry of the loop; the
\* raise after the loop when range(max_retries) is empty
RetryEnter(p) ==
  /\ pc[p] = "r_enter"
  /\ LET l == loc[p] @@
              [max_retries |-> PyOr(loc[p].arg_max_retries, OpenaiMaxRetries),
               delay |-> PyOr(loc[p].arg_delay, OpenaiRetryDelay),
               attempt |-> 0, slept |-> <<>>]
     IN  IF l.max_retries > 0
           THEN Goto(p, "r_try", l)
           ELSE Respond(p, RetryResp(l, 502, 0, 0))
  /\ UNCHANGED <<stored, nextDoc, history>>

\* call_with_retry: openai.ChatCompletion.create answers, the answer is
\* returned
RetryCallOk(p) ==
  /\ pc[p] = "r_try"
  /\ Respond(p, RetryResp(loc[p], 200, loc[p].attempt + 1, loc[p].attempt))
  /\ UNCHANGED <<stored, nextDoc, history>>

\* call_with_retry: the provider call raises; the last attempt raises 502,
\* any other sleeps delay * 2 ** attempt and goes round the loop
RetryCallFail(p) ==
  /\ pc[p] = "r_try"
  /\ IF loc[p].attempt = loc[p].max_retries - 1
       THEN Respond(p, RetryResp(loc[p], 502, loc[p].attempt + 1,
                                 loc[p].attempt + 1))
       ELSE Goto(p, "r_try",
                 [loc[p] EXCEPT !.attempt = @ + 1,
                                !.slept = Append(@, loc[p].delay * Pow2(loc[p].attempt))])
  /\ UNCHANGED <<stored, nextDoc, history>>

\* ------------------------------------------------------- specifications
\* one call of call_with_retry for every choice of its arguments
NextRetry == \E p \in {1} : RetryEnter(p) \/ RetryCallOk(p) \/ RetryCallFail(p)

SpecRetry == InitRetry /\ [][NextRetry]_vars

\* _chunk_text applied to every input
NextChunk == \E p \in {1} : ChunkTextCall(p)

SpecChunk == InitChunk /\ [][NextChunk]_vars

\* the steps of an upload in which nothing raises after the checks
UploadSteps(p) ==
  \/ UploadRejected(p)
  \/ UploadAccepted(p)
  \/ StoreLoadIndex(p)
  \/ StoreLoadMeta(p)
  \/ StoreWriteIndex(p)
  \/ StoreWriteMeta(p)
  \/ CatalogInsert(p)

\* the steps of an upload in which the provider, a file write or the
\* INSERT raises
UploadFaults(p) ==
  \/ UploadEmbedFail(p)
  \/ StoreWriteIndexFail(p)
  \/ StoreWriteMetaFail(p)
  \/ CatalogInsertFail(p)

DeleteSteps(p) ==
  \/ DeleteNotFound(p)
  \/ DeleteForbidden(p)
  \/ DeleteOwnerChecked(p)
  \/ DeleteSelect(p)
  \/ DeleteExec(p)

SearchSteps(p) ==
  \/ SearchEmbedFail(p)
  \/ SearchLoadIndex(p)
  \/ SearchLoadMeta(p)

ListSteps(p) ==
  \/ ListDocuments(p)
  \/ ListDocumentsFail(p)

\* every request kind, every fault, workers interleaved
Next == \E p \in Procs :
  \/ UploadSteps(p) \/ UploadFaults(p) \/ DeleteSteps(p) \/ SearchSteps(p)
  \/ ListSteps(p)

Spec == Init /\ [][Next]_vars

\* concurrent uploads, nothing raises after the checks
NextNoFault == \E p \in Procs : UploadSteps(p)

SpecNoFault == Init /\ [][NextNoFault]_vars

\* concurrent uploads with faults
NextIngest == \E p \in Procs : UploadSteps(p) \/ UploadFaults(p)

SpecIngest == Init /\ [][NextIngest]_vars

\* uploads served by one worker, searches by another
NextSearch ==
  \/ \E p \in {1} : UploadSteps(p) \/ UploadFaults(p)
  \/ \E p \in {2} : SearchSteps(p)

SpecSearch == Init /\ [][NextSearch]_vars

\* uploads served by one worker, deletes by every worker
NextCatalog ==
  \/ \E p \in {1} : UploadSteps(p) \/ CatalogInsertFail(p)
  \/ \E p \in Procs : DeleteSteps(p)

SpecCatalog == Init /\ [][NextCatalog]_vars

\* uploads served by one worker, lists by another
NextList ==
  \/ \E p \in {1} : UploadSteps(p)
  \/ \E p \in {2} : ListSteps(p)

SpecList == Init /\ [][NextList]_vars

\* searches over a store left by uploads that all succeeded
NextFilter == \E p \in {1} : SearchSteps(p)

SpecFilter == InitFilter /\ [][NextFilter]_vars

\* uploads with faults, deletes and searches, one request at a time
NextSeq == \E p \in {1} :
  UploadSteps(p) \/ UploadFaults(p) \/ DeleteSteps(p) \/ SearchSteps(p)

SpecSeq == Init /\ [][NextSeq]_vars

\* ---------------------------------------------------------------- claims
\* the vector ids of a sequence, as a set
IdSet(ids) == {ids[k] : k \in 1..Len(ids)}

\* no worker is inside _store_in_vector_db
NoAppendRunning ==
  \A p \in Procs : pc[p] \notin {"u_ldidx", "u_ldmeta", "u_wridx", "u_wrmeta"}

FilesAgree ==
  /\ indexExists = metaExists
  /\ Len(indexVecs) = Len(metaList)

\* C1: concurrent uploads are assigned pairwise distinct vector ids, and once
\* no append is running the metadata list is as long as the index.
C1_ConcurrentAppendSafe ==
  /\ \A a, b \in assigned :
       a.doc_id # b.doc_id => IdSet(a.vector_ids) \cap IdSet(b.vector_ids) = {}
  /\ NoAppendRunning => FilesAgree

\* C2: whenever no worker is between its two file writes, a failed append
\* included, the persisted index and metadata list have equal length.
C2_FailedAppendLeavesPair ==
  (\A p \in Procs : pc[p] # "u_wrmeta") => FilesAgree

\* the entries of the loaded index that search_documents gets to look at
Eligible(index, metas, a) ==
  {c \in IdSet(IndexSearch(index, a.query, Min(a.top_k * 3, Len(index)))) :
     c.score >= a.threshold /\ c.idx + 1 <= Len(metas)}

VisibleTo(metadata, company_number) ==
  \/ metadata.document_type = "general"
  \/ metadata.company_number = company_number

\* C3: a search by tenant B returns no company_specific entry of another
\* tenant, and an eligible entry that is general or of the caller's own
\* company is left out only when top_k results were already found.
C3_TenantIsolation ==
  (resp.op = "search" /\ resp.args # Unread) =>
    LET a == resp.args
        out == resp.results
    IN  /\ a.company_number # None =>
             \A i \in 1..Len(out) :
                ~ (/\ out[i].metadata.document_type = "company_specific"
                   /\ out[i].metadata.company_number # a.company_number)
        /\ ~ resp.raised =>
             \A c \in Eligible(resp.index, resp.metas, a) :
                VisibleTo(resp.metas[c.idx + 1], a.company_number) =>
                  \/ Len(out) = a.top_k
                  \/ \E i \in 1..Len(out) :
                       out[i].metadata = resp.metas[c.idx + 1]

C3_Witness ==
  /\ resp.op = "search" /\ ~ resp.raised
  /\ resp.args.company_number = "B"
  /\ Len(resp.results) >= 1
  /\ \E c \in Eligible(resp.index, resp.metas, resp.args) :
       resp.metas[c.idx + 1].company_number = "A"

\* C4: a search called after delete of D succeeded returns no entry of D.
C4_LogicalDeletion ==
  resp.op = "search" =>
    \A i \in 1..Len(resp.results) : resp.results[i].metadata.doc_id \notin resp.gone

\* C5: every catalog row belongs to an append that returned, and each of its
\* vector ids is in the persisted index with metadata of the row's doc_id.
C5_Lifecycle ==
  \A r \in catalog :
    /\ [doc_id |-> r.doc_id, vector_ids |-> r.vector_ids] \in assigned
    /\ \A v \in IdSet(r.vector_ids) :
         /\ v + 1 <= Len(indexVecs)
         /\ v + 1 <= Len(metaList)
         /\ metaList[v + 1].doc_id = r.doc_id

FailedBeforeAppend ==
  {"bad_document_type", "company_required", "too_large", "bad_pdf",
   "unsupported", "no_text", "chunking", "embedding"}

\* C6: an upload that fails in validation, extraction, chunking or
\* embedding leaves index, metadata list and catalog as they were.
C6_FailBeforeAppend ==
  (resp.op = "upload" /\ resp.detail \in FailedBeforeAppend) => stored = prev

C6_Witness ==
  /\ resp.op = "upload" /\ resp.detail = "embedding"
  /\ resp.batches_ok >= 1
  /\ Len(indexVecs) >= 1

\* C7: a search called after the catalog insert of an appended document
\* failed returns no entry of that document.
C7_OrphansInvisible ==
  resp.op = "search" =>
    \A i \in 1..Len(resp.results) : resp.results[i].metadata.doc_id \notin resp.orph

\* C8: an upload with an unsupported extension is answered 400 and leaves
\* index and catalog unchanged.
C8_Unsupported400 ==
  (resp.op = "upload" /\ resp.detail = "unsupported") =>
    (resp.status = 400 /\ stored = prev)

\* the table before the last step
PrevCatalog == prev[5]

\* C9: a delete that finds no catalog row for its doc_id, at the route's
\* check or at the service's SELECT, is answered 404 and changes nothing.
C9_DeleteAbsent404 ==
  (/\ resp.op = "delete"
   /\ resp.at \in {"check", "select"}
   /\ \A r \in PrevCatalog : r.doc_id # resp.doc_id) =>
    (resp.status = 404 /\ stored = prev)

C9_Witness ==
  /\ resp.op = "delete" /\ resp.status = 404
  /\ resp.doc_id \in deleted
  /\ catalog # {}

\* C10: a delete by a user who does not own the row is answered 403 and
\* leaves the row; a row disappears only in a delete answered 200 to its owner.
C10_DeleteForbidden ==
  /\ (/\ resp.op = "delete" /\ resp.at = "check"
      /\ \E r \in PrevCatalog : r.doc_id = resp.doc_id /\ r.user_id # resp.user_id) =>
       (resp.status = 403 /\ resp.status # 404 /\ catalog = PrevCatalog)
  /\ \A r \in PrevCatalog \ catalog :
       /\ resp.op = "delete" /\ resp.status = 200
       /\ resp.doc_id = r.doc_id /\ resp.user_id = r.user_id

C10_Witness ==
  /\ resp.op = "delete" /\ resp.status = 403
  /\ \E r \in Rows(resp.doc_id) : r.user_id # resp.user_id

\* the index file before the last step
PrevIndexExists == prev[1]

\* C11: a search made while no index file exists returns the empty list
\* with status 200 and changes nothing.
C11_EmptyIndexSearch ==
  (resp.op = "search" /\ ~ PrevIndexExists) =>
    (resp.results = <<>> /\ resp.status = 200 /\ stored = prev)

C11_Witness ==
  /\ resp.op = "search" /\ ~ PrevIndexExists /\ ~ resp.raised
  /\ resp.results = <<>>
  /\ pc[1] = "u_wridx"

\* C12: a search returns at most top_k results, and their scores do not
\* increase along the returned sequence.
C12_TopKDescending ==
  (resp.op = "search" /\ resp.args # Unread) =>
    /\ Len(resp.results) <= resp.args.top_k
    /\ \A i, j \in 1..Len(resp.results) :
         i < j => resp.results[i].score >= resp.results[j].score

C12_Witness ==
  /\ resp.op = "search" /\ resp.args # Unread
  /\ Len(resp.results) = 2
  /\ resp.results[1].score > resp.results[2].score
  /\ Len(resp.index) > 2
  /\ resp.results[1].metadata.vector_id > resp.results[2].metadata.vector_id

\* the score of an index entry against the query of a search
Score(a, v) == InnerProduct(NormalizeL2(a.query), v)

\* C13: every returned result scores at least the threshold of the call,
\* and a search over an index whose entries all score below it returns the
\* empty list.
C13_Threshold ==
  (resp.op = "search" /\ resp.args # Unread) =>
    /\ \A i \in 1..Len(resp.results) :
         resp.results[i].score >= resp.args.threshold
    /\ (\A k \in 1..Len(resp.index) :
          Score(resp.args, resp.index[k]) < resp.args.threshold)
         => resp.results = <<>>

C13_Witness ==
  /\ resp.op = "search" /\ resp.args # Unread /\ ~ resp.raised
  /\ Len(resp.results) >= 1
  /\ \E k \in 1..Len(resp.index) :
       /\ k <= Len(resp.metas)
       /\ Score(resp.args, resp.index[k]) < resp.args.threshold
       /\ ~ CompanyFiltered(resp.metas[k], resp.args.company_number)

\* C14: the ids of every append are consecutive, no id is given to two
\* appends, and the persisted metadata entry at position i has vector_id i.
C14_VectorIdsUnique ==
  /\ \A a \in assigned :
       \A k \in 1..(Len(a.vector_ids) - 1) :
          a.vector_ids[k + 1] = a.vector_ids[k] + 1
  /\ \A a, b \in assigned :
       a # b => IdSet(a.vector_ids) \cap IdSet(b.vector_ids) = {}
  /\ \A i \in 1..Len(metaList) : metaList[i].vector_id = i - 1

\* the token positions of a chunk
Tokens(r) == r.lo..(r.hi - 1)

\* C15: the token ranges of the chunks _chunk_text returns cover every
\* token position of the input.
C15_ChunkCoverage ==
  resp.op = "chunk" =>
    UNION {Tokens(resp.ranges[k]) : k \in 1..Len(resp.ranges)}
      = 0..(resp.ntok - 1)

C15_Witness ==
  /\ resp.op = "chunk"
  /\ resp.size = 10 /\ resp.overlap = 2
  /\ Len(resp.ranges) >= 3
  /\ resp.ranges[Len(resp.ranges)].hi - resp.ranges[Len(resp.ranges)].lo < resp.size

\* C16: for an input longer than one window, every two consecutive chunks,
\* the last two included, share exactly overlap token positions.
C16_ChunkOverlap ==
  (resp.op = "chunk" /\ resp.ntok > resp.size) =>
    \A k \in 1..(Len(resp.ranges) - 1) :
       Cardinality(Tokens(resp.ranges[k]) \cap Tokens(resp.ranges[k + 1]))
         = resp.overlap

\* C17: a non-empty input of fewer tokens than chunk_size yields exactly
\* one chunk.
C17_ShortInputOneChunk ==
  (resp.op = "chunk" /\ resp.ntok >= 1 /\ resp.ntok < resp.size) =>
    Len(resp.ranges) = 1

\* C18: a list answered right after a list with the same filters, nothing
\* having happened in between, returns the same rows in the same order.
C18_IdempotentListing ==
  (resp.op = "list" /\ ~ resp.raised /\ resp.last.seen) =>
    resp.documents = resp.last.documents

\* C19: a search called without a company number returns general entries
\* only.
C19_NoTenantOnlyGlobal ==
  (resp.op = "search" /\ resp.args # Unread /\ resp.args.company_number = None) =>
    \A i \in 1..Len(resp.results) :
       resp.results[i].metadata.document_type = "general"

\* C20: a search that loaded an index and a metadata list of different
\* lengths, the metadata file unreadable included, is answered with an
\* error, and no append goes on to write from such a pair.
C20_InconsistentLoadFails ==
  /\ (/\ resp.op = "search" /\ resp.index # <<>>
      /\ Len(resp.index) # Len(resp.metas)) => resp.status # 200
  /\ \A p \in Procs :
       pc[p] \in {"u_wridx", "u_wrmeta", "u_insert"} =>
         Len(loc[p].index) = Len(loc[p].metas)

\* C21: the index and the metadata list a search has loaded are one
\* committed version of the pair: they have the same length.
C21_SearchSnapshot ==
  (resp.op = "search" /\ resp.args # Unread) =>
    Len(resp.index) = Len(resp.metas)

\* the metadata list before the last step
PrevMetaList == prev[4]

\* C22: the entries a call of _store_in_vector_db has just written are its
\* chunks in emission order, chunk_index k under vector_id start_id + k, and
\* the vector_ids it returns are in the same order.
C22_ChunkVectorOrder ==
  metaList # PrevMetaList =>
    \E p \in Procs :
      /\ pc[p] = "u_insert"
      /\ LET n == Len(loc[p].chunks)
             base == Len(metaList) - n
         IN  /\ base >= 0
             /\ Len(loc[p].vector_ids) = n
             /\ \A k \in 1..n :
                  /\ metaList[base + k].doc_id = loc[p].doc_id
                  /\ metaList[base + k].chunk_index = k - 1
                  /\ metaList[base + k].vector_id = loc[p].start_id + (k - 1)
                  /\ loc[p].vector_ids[k] = loc[p].start_id + (k - 1)

C22_Witness ==
  /\ metaList # PrevMetaList
  /\ \E p \in Procs :
       /\ pc[p] = "u_insert"
       /\ Len(loc[p].chunks) >= 2
       /\ loc[p].start_id >= 1
       /\ metaList[Len(metaList)].doc_id = loc[p].doc_id

\* a company number is carried exactly by company_specific documents
TenantIffScoped(x) ==
  /\ x.document_type \in DocTypes
  /\ (x.company_number # None) <=> (x.document_type = "company_specific")

\* C23: every catalog row, every metadata entry and every upload past the
\* checks carries a company number exactly when it is company_specific, and
\* an upload rejected for its document type, a missing company number or
\* its size changes neither the files nor the table.
C23_ValidatedVisibility ==
  /\ \A r \in catalog : TenantIffScoped(r)
  /\ \A i \in 1..Len(metaList) : TenantIffScoped(metaList[i])
  /\ \A p \in Procs : loc[p].op = "upload" => TenantIffScoped(loc[p])
  /\ (/\ resp.op = "upload"
      /\ resp.detail \in {"bad_document_type", "company_required", "too_large"})
       => (resp.status >= 400 /\ stored = prev)

C23_Witness ==
  /\ \E r \in catalog : r.document_type = "general"
  /\ \E r \in catalog : r.document_type = "company_specific"
  /\ resp.op = "upload" /\ resp.detail = "too_large"

\* C24: chunk k (counted from 0) covers the token range from
\* k * (size - overlap) to min(k * (size - overlap) + size, L), and 120
\* tokens with size 50 and overlap 10 give [0,50), [40,90), [80,120).
C24_ChunkRanges ==
  resp.op = "chunk" =>
    /\ \A k \in 1..Len(resp.ranges) :
         /\ resp.ranges[k].lo = (k - 1) * (resp.size - resp.overlap)
         /\ resp.ranges[k].hi =
              Min((k - 1) * (resp.size - resp.overlap) + resp.size, resp.ntok)
    /\ [ntok |-> resp.ntok, size |-> resp.size, overlap |-> resp.overlap]
         = ChunkScenario
       => resp.ranges = <<[lo |-> 0, hi |-> 50], [lo |-> 40, hi |-> 90],
                          [lo |-> 80, hi |-> 120]>>

C24_Witness ==
  /\ resp.op = "chunk"
  /\ resp.ntok = 120 /\ resp.size = 50 /\ resp.overlap = 10
  /\ Len(resp.ranges) = 3

\* C25: an upload fails for the embedding provider only after more than
\* one provider call has failed, that is, after a retry.
C25_EmbeddingRetry ==
  (resp.op = "upload" /\ resp.detail = "embedding") => resp.calls_failed >= 2

\* C26: a search in which the provider, the index read or the metadata
\* read raised is answered with an error, not with a result.
C26_SearchErrorsPropagate ==
  (resp.op = "search" /\ resp.raised) => resp.status # 200

\* C27: a search in which the provider or a file read raised returns the
\* empty list with status 200, and every search leaves index, metadata and
\* catalog unchanged.
C27_SearchFailuresHidden ==
  resp.op = "search" =>
    /\ stored = prev
    /\ resp.raised => (resp.results = <<>> /\ resp.status = 200)

C27_Witness ==
  /\ resp.op = "search" /\ resp.raised
  /\ resp.index # <<>>
  /\ catalog # {}

\* positions of the loaded index that score at least the threshold and are
\* general or of the caller's company
VisibleEligible(r) ==
  {i \in 1..Len(r.index) :
     /\ i <= Len(r.metas)
     /\ Score(r.args, r.index[i]) >= r.args.threshold
     /\ VisibleTo(r.metas[i], r.args.company_number)}

\* C28: a search by a caller with a company number returns as many results
\* as there are visible eligible entries, up to top_k, and none of the
\* entries left out scores higher than a returned one.
C28_SearchComplete ==
  (/\ resp.op = "search" /\ resp.args # Unread /\ ~ resp.raised
   /\ resp.args.company_number # None) =>
    /\ Len(resp.results) = Min(resp.args.top_k, Cardinality(VisibleEligible(resp)))
    /\ \A i \in VisibleEligible(resp) :
         (\A k \in 1..Len(resp.results) : resp.results[k].metadata # resp.metas[i])
           => \A k \in 1..Len(resp.results) :
                resp.results[k].score >= Score(resp.args, resp.index[i])

\* C29: of the deletes of one document only the one that removes its row
\* reports success: a delete answered 200 found the row in the table and
\* the row is gone afterwards.
C29_OneDeleteSucceeds ==
  (resp.op = "delete" /\ resp.status = 200) =>
    /\ \E r \in PrevCatalog : r.doc_id = resp.doc_id
    /\ \A r \in catalog : r.doc_id # resp.doc_id

\* the value an optional argument stands for: the caller's, else the setting
Given(x, default) == IF x.given THEN x.value ELSE default

\* C30: call_with_retry makes at most max_retries provider calls, has slept
\* delay * 2^k after the k-th failed call but the last, and raises 502
\* exactly when max_retries calls have failed, max_retries and delay being
\* the caller's values whenever the caller gave them.
C30_RetryContract ==
  resp.op = "retry" =>
    LET m == Given(resp.arg_max_retries, OpenaiMaxRetries)
        d == Given(resp.arg_delay, OpenaiRetryDelay)
    IN  /\ resp.calls <= m
        /\ resp.slept = [k \in 1..(resp.calls - 1) |-> d * Pow2(k - 1)]
        /\ (resp.status = 502) <=> (resp.failed = m)
        /\ (resp.status = 200) => (resp.failed = resp.calls - 1)

====
